---- MODULE Spec2Model ----
(***************************************************************************)
(* Model of feed-rs' dispatcher, src/parser/mod.rs: parse() builds an      *)
(* ElementSource over the input, fetches the root element, and routes it   *)
(* to one of the four dialect mappers by the root's local name and its     *)
(* "version" attribute.  Two parse calls run interleaved, each on its own  *)
(* input.                                                                  *)
(***************************************************************************)
EXTENDS Naturals, Sequences, FiniteSets

VARIABLES input, pc, source, rootRes, rootFetches, invoked, mapperRes, result

vars == <<input, pc, source, rootRes, rootFetches, invoked, mapperRes, result>>

(* The parse invocations that run side by side. *)
Calls == {1, 2}

---------------------------------------------------------------------------
(* Option and Result values *)

None == <<>>

Some(v) == <<v>>

Ok(v) == [tag |-> "Ok", val |-> v]

Err(e) == [tag |-> "Err", val |-> e]

(* enum ParseFeedError / ParseErrorKind; detail is the payload, if any *)
ParseError(kind) == [variant |-> "ParseError", detail |-> kind]

(* impl From<xml_reader::Error> for ParseFeedError *)
XmlReader(err) == [variant |-> "XmlReader", detail |-> err]

ParseErrorKind == {"NoFeedRoot", "UnknownMimeType", "MissingContent", "InvalidDateTime"}

---------------------------------------------------------------------------
(* Inputs: a byte stream, abstracted to what the tokenizer delivers up to  *)
(* the first start-tag and to what a mapper's walk finds below it.         *)

LocalNames == {"feed", "rss", "RDF", "notafeed", "RSS"}

Versions == {"2.0", "0.91", "0.92", "2", "2.00", "1.0", "0.93", ""}

VersionAttr(v) == [local_name |-> "version", value |-> v]

OtherAttr == [local_name |-> "lang", value |-> "2.0"]

(* the version attribute of the root: absent, or present with a value *)
VersionLists == {<<>>} \cup {<<VersionAttr(v)>> : v \in Versions}

(* namespace URI and prefix of the root's name *)
Unqualified == [namespace |-> "", prefix |-> ""]

Qualified == [namespace |-> "urn:ns", prefix |-> "p"]

(* what the document holds below the root start-tag *)
Contents == {"complete", "no_id_text", "bad_date", "bad_mime", "truncated"}

XmlErrors == {"malformed", "encoding", "unexpected_eof"}

(* how a document departs from the plain one: a qualified root name,      *)
(* another attribute ahead of the version, or a body a mapper rejects;     *)
(* one departure per document                                              *)
Shapes ==
    {s \in [qualifier : {Unqualified, Qualified}, other : BOOLEAN, content : Contents] :
        \/ s.qualifier = Unqualified /\ ~s.other
        \/ s.content = "complete" /\ (s.qualifier = Unqualified \/ ~s.other)}

Roots ==
    {[name |-> [local_name |-> n, namespace |-> s.qualifier.namespace,
                prefix |-> s.qualifier.prefix],
      attributes |-> (IF s.other THEN <<OtherAttr>> ELSE <<>>) \o a,
      content |-> s.content] :
        n \in LocalNames, a \in VersionLists, s \in Shapes}

Inputs ==
    {[stream |-> "fault", error |-> e, root |-> None] : e \in XmlErrors}
      \cup {[stream |-> "eof", error |-> "", root |-> None]}
      \cup {[stream |-> "element", error |-> "", root |-> Some(r)] : r \in Roots}

---------------------------------------------------------------------------
(* Collaborators of parse() *)

(* ElementSource::new(input) *)
ElementSource(in) == [input |-> in]

(* ElementSource::root(): Ok(Some(root)), Ok(None) or Err(xml error) *)
root(src) ==
    CASE src.input.stream = "fault" -> Err(src.input.error)
      [] src.input.stream = "eof" -> Ok(None)
      [] OTHER -> Ok(Some(src.input.root[1]))

(* util::attr_value(attributes, name): value of the first attribute with  *)
(* that local name                                                         *)
attr_value(attributes, name) ==
    LET hits == {i \in 1..Len(attributes) : attributes[i].local_name = name}
    IN  IF hits = {} THEN None
        ELSE Some(attributes[CHOOSE i \in hits : \A j \in hits : i <= j].value)

(* atom::parse, rss2::parse, rss0::parse, rss1::parse: one walk of the     *)
(* root's children, a Feed or the first error                              *)
MapperParse(m, r) ==
    CASE r.content = "complete" -> Ok([format |-> m, id |-> "feed1"])
      [] r.content = "no_id_text" -> Err(ParseError("MissingContent"))
      [] r.content = "bad_date" -> Err(ParseError("InvalidDateTime"))
      [] r.content = "bad_mime" -> Err(ParseError("UnknownMimeType"))
      [] OTHER -> Err(XmlReader("unexpected_eof"))

Mappers == {"atom", "rss2", "rss0", "rss1"}

---------------------------------------------------------------------------
(* The dispatcher, parse() *)

(* if let Ok(Some(root)) = source.root() *)
RootMatched(res) == res.tag = "Ok" /\ res.val # None

DispatchKeyQualifiedName(r) ==
    <<IF r.name.prefix = "" THEN r.name.local_name
      ELSE r.name.prefix \o ":" \o r.name.local_name,
      attr_value(r.attributes, "version")>>

(* (root.name.local_name.as_str(), version) *)
DispatchKey(r) == <<r.name.local_name, attr_value(r.attributes, "version")>>

SelectOnly091(key) ==
    CASE key[1] = "feed" -> "atom"
      [] key[1] = "rss" /\ key[2] = Some("2.0") -> "rss2"
      [] key[1] = "rss" /\ key[2] = Some("0.91") -> "rss0"
      [] key[1] = "RDF" -> "rss1"
      [] OTHER -> "none"

SelectIgnoreCase(key) ==
    CASE key[1] \in {"feed", "FEED"} -> "atom"
      [] key[1] \in {"rss", "RSS"} /\ key[2] = Some("2.0") -> "rss2"
      [] key[1] \in {"rss", "RSS"} /\ key[2] \in {Some("0.91"), Some("0.92")} -> "rss0"
      [] key[1] \in {"RDF", "rdf"} -> "rss1"
      [] OTHER -> "none"

SelectDefaultRss2(key) ==
    CASE key[1] = "feed" -> "atom"
      [] key[1] = "rss" /\ key[2] \in {Some("0.91"), Some("0.92")} -> "rss0"
      [] key[1] = "rss" -> "rss2"
      [] key[1] = "RDF" -> "rss1"
      [] OTHER -> "none"

SelectVersionFirst(key) ==
    CASE key[2] = Some("2.0") /\ key[1] \in {"feed", "rss", "RDF"} -> "rss2"
      [] key[2] \in {Some("0.91"), Some("0.92")} /\ key[1] \in {"feed", "rss", "RDF"} -> "rss0"
      [] key[1] = "feed" -> "atom"
      [] key[1] = "RDF" -> "rss1"
      [] OTHER -> "none"

(* the match arms, in order; "none" is the arm _ => {} *)
Select(key) ==
    CASE key[1] = "feed" -> "atom"
      [] key[1] = "rss" /\ key[2] = Some("2.0") -> "rss2"
      [] key[1] = "rss" /\ key[2] \in {Some("0.91"), Some("0.92")} -> "rss0"
      [] key[1] = "RDF" -> "rss1"
      [] OTHER -> "none"

(* the mapper the call at the match would run, "none" if it falls out of  *)
(* the if-let or the match                                                 *)
Selected(res) ==
    IF RootMatched(res) THEN Select(DispatchKey(res.val[1])) ELSE "none"

(* Err(ParseFeedError::ParseError(ParseErrorKind::NoFeedRoot)) *)
NoFeedRootErr == Err(ParseError("NoFeedRoot"))

Init ==
    /\ input \in [Calls -> Inputs]
    /\ pc = [c \in Calls |-> "new"]
    /\ source = [c \in Calls |-> None]
    /\ rootRes = [c \in Calls |-> None]
    /\ rootFetches = [c \in Calls |-> 0]
    /\ invoked = [c \in Calls |-> <<>>]
    /\ mapperRes = [c \in Calls |-> None]
    /\ result = [c \in Calls |-> None]

NewSourceShared(c) ==
    /\ pc[c] = "new"
    /\ source' = [d \in Calls |-> Some(ElementSource(input[c]))]
    /\ pc' = [pc EXCEPT ![c] = "root"]
    /\ UNCHANGED <<input, rootRes, rootFetches, invoked, mapperRes, result>>

(* let source = ElementSource::new(input); *)
NewSource(c) ==
    /\ pc[c] = "new"
    /\ source' = [source EXCEPT ![c] = Some(ElementSource(input[c]))]
    /\ pc' = [pc EXCEPT ![c] = "root"]
    /\ UNCHANGED <<input, rootRes, rootFetches, invoked, mapperRes, result>>

FetchRootConsumed(c) ==
    /\ pc[c] = "root"
    /\ rootRes' = [rootRes EXCEPT ![c] =
                      IF \E d \in Calls \ {c} : rootRes[d] # None
                      THEN Some(Ok(None))
                      ELSE Some(root(source[c][1]))]
    /\ rootFetches' = [rootFetches EXCEPT ![c] = @ + 1]
    /\ pc' = [pc EXCEPT ![c] = "match"]
    /\ UNCHANGED <<input, source, invoked, mapperRes, result>>

(* source.root() *)
FetchRoot(c) ==
    /\ pc[c] = "root"
    /\ rootRes' = [rootRes EXCEPT ![c] = Some(root(source[c][1]))]
    /\ rootFetches' = [rootFetches EXCEPT ![c] = @ + 1]
    /\ pc' = [pc EXCEPT ![c] = "match"]
    /\ UNCHANGED <<input, source, invoked, mapperRes, result>>

MapperArmFallThrough(c, m) ==
    /\ pc[c] = "match"
    /\ Selected(rootRes[c][1]) = m
    /\ LET res == MapperParse(m, rootRes[c][1].val[1])
       IN  /\ invoked' = [invoked EXCEPT ![c] = Append(@, m)]
           /\ mapperRes' = [mapperRes EXCEPT ![c] = Some(res)]
           /\ result' = [result EXCEPT ![c] =
                           IF res.tag = "Ok" THEN Some(res) ELSE Some(NoFeedRootErr)]
    /\ pc' = [pc EXCEPT ![c] = "done"]
    /\ UNCHANGED <<input, source, rootRes, rootFetches>>

(* a match arm: return m::parse(root) *)
MapperArm(c, m) ==
    /\ pc[c] = "match"
    /\ Selected(rootRes[c][1]) = m
    /\ LET res == MapperParse(m, rootRes[c][1].val[1])
       IN  /\ invoked' = [invoked EXCEPT ![c] = Append(@, m)]
           /\ mapperRes' = [mapperRes EXCEPT ![c] = Some(res)]
           /\ result' = [result EXCEPT ![c] = Some(res)]
    /\ pc' = [pc EXCEPT ![c] = "done"]
    /\ UNCHANGED <<input, source, rootRes, rootFetches>>

ParseAtom(c) == MapperArm(c, "atom")

ParseRss2(c) == MapperArm(c, "rss2")

ParseRss0(c) == MapperArm(c, "rss0")

ParseRss1(c) == MapperArm(c, "rss1")

ReturnEmptyFeed(c) ==
    /\ pc[c] = "match"
    /\ Selected(rootRes[c][1]) = "none"
    /\ result' = [result EXCEPT ![c] =
                    IF rootRes[c][1] = Ok(None)
                    THEN Some(Ok([format |-> "none", id |-> ""]))
                    ELSE Some(NoFeedRootErr)]
    /\ pc' = [pc EXCEPT ![c] = "done"]
    /\ UNCHANGED <<input, source, rootRes, rootFetches, invoked, mapperRes>>

(* the if-let did not match, or the arm _ => {} was taken *)
ReturnNoFeedRoot(c) ==
    /\ pc[c] = "match"
    /\ Selected(rootRes[c][1]) = "none"
    /\ result' = [result EXCEPT ![c] = Some(NoFeedRootErr)]
    /\ pc' = [pc EXCEPT ![c] = "done"]
    /\ UNCHANGED <<input, source, rootRes, rootFetches, invoked, mapperRes>>

Next ==
    \E c \in Calls :
        \/ NewSource(c)
        \/ FetchRoot(c)
        \/ ParseAtom(c)
        \/ ParseRss2(c)
        \/ ParseRss0(c)
        \/ ParseRss1(c)
        \/ ReturnNoFeedRoot(c)

Spec == Init /\ [][Next]_vars

(* parse() run by itself, start to return, on one input *)
ParseAlone(in) ==
    LET res == root(ElementSource(in))
        m == Selected(res)
    IN  [invoked |-> IF m = "none" THEN <<>> ELSE <<m>>,
         result |-> IF m = "none" THEN NoFeedRootErr ELSE MapperParse(m, res.val[1])]

---------------------------------------------------------------------------
(* Vocabulary of the properties, stated on the input documents *)

Done(c) == pc[c] = "done"

HasRoot(c) == input[c].stream = "element"

RootOf(c) == input[c].root[1]

LocalNameOf(c) == RootOf(c).name.local_name

VersionIs(c, v) ==
    \E i \in DOMAIN RootOf(c).attributes :
        RootOf(c).attributes[i] = [local_name |-> "version", value |-> v]

VersionAbsent(c) ==
    \A i \in DOMAIN RootOf(c).attributes :
        RootOf(c).attributes[i].local_name # "version"

SameVersion(c, d) ==
    /\ VersionAbsent(c) <=> VersionAbsent(d)
    /\ \A v \in Versions : VersionIs(c, v) <=> VersionIs(d, v)

ReturnedNoFeedRoot(c) ==
    result[c] = <<[tag |-> "Err", val |-> [variant |-> "ParseError", detail |-> "NoFeedRoot"]]>>

---------------------------------------------------------------------------
(* C1: a call that has returned on a document with a root element ran,    *)
(* and ran only, the mapper of the dispatch table: feed -> Atom; rss with  *)
(* version exactly 2.0 -> RSS 2.0; rss with version exactly 0.91 or 0.92   *)
(* -> RSS 0.9x; RDF -> RSS 1.0.                                            *)
C1_DispatchTable ==
    \A c \in Calls :
        Done(c) /\ HasRoot(c) =>
            /\ LocalNameOf(c) = "feed" => invoked[c] = <<"atom">>
            /\ LocalNameOf(c) = "rss" /\ VersionIs(c, "2.0") => invoked[c] = <<"rss2">>
            /\ LocalNameOf(c) = "rss" /\ (VersionIs(c, "0.91") \/ VersionIs(c, "0.92"))
                 => invoked[c] = <<"rss0">>
            /\ LocalNameOf(c) = "RDF" => invoked[c] = <<"rss1">>

C1_Witness ==
    \E c \in Calls :
        /\ Done(c) /\ HasRoot(c)
        /\ LocalNameOf(c) = "rss" /\ VersionIs(c, "0.92")
        /\ invoked[c] = <<"rss0">>

(* C2: a root whose local name is not exactly feed, rss or RDF runs no    *)
(* mapper and returns NoFeedRoot, whatever its version attribute.          *)
C2_UnknownRootFails ==
    \A c \in Calls :
        Done(c) /\ HasRoot(c) /\ LocalNameOf(c) \notin {"feed", "rss", "RDF"} =>
            invoked[c] = <<>> /\ ReturnedNoFeedRoot(c)

C2_Witness ==
    \E c, d \in Calls :
        /\ Done(c) /\ HasRoot(c) /\ LocalNameOf(c) = "RSS" /\ VersionIs(c, "2.0")
        /\ ReturnedNoFeedRoot(c)
        /\ Done(d) /\ HasRoot(d) /\ LocalNameOf(d) = "notafeed" /\ VersionAbsent(d)
        /\ ReturnedNoFeedRoot(d)

(* C3: an rss root whose version is absent or is not exactly 2.0, 0.91 or *)
(* 0.92 runs no mapper and returns NoFeedRoot.                             *)
C3_RssFailsClosed ==
    \A c \in Calls :
        /\ Done(c) /\ HasRoot(c) /\ LocalNameOf(c) = "rss"
        /\ ~VersionIs(c, "2.0") /\ ~VersionIs(c, "0.91") /\ ~VersionIs(c, "0.92")
        => invoked[c] = <<>> /\ ReturnedNoFeedRoot(c)

C3_Witness ==
    \E c, d \in Calls :
        /\ Done(c) /\ HasRoot(c) /\ LocalNameOf(c) = "rss" /\ VersionAbsent(c)
        /\ ReturnedNoFeedRoot(c)
        /\ Done(d) /\ HasRoot(d) /\ LocalNameOf(d) = "rss" /\ VersionIs(d, "2.00")
        /\ ReturnedNoFeedRoot(d)

(* C4: when root() returns Ok(None), the stream ending before any          *)
(* start-tag, no mapper runs and parse returns NoFeedRoot.                 *)
C4_NoRootFails ==
    \A c \in Calls :
        Done(c) /\ rootRes[c] = <<[tag |-> "Ok", val |-> <<>>]>> =>
            invoked[c] = <<>> /\ ReturnedNoFeedRoot(c)

C4_Witness ==
    \E c \in Calls :
        /\ Done(c) /\ input[c].stream = "eof"
        /\ rootRes[c] = <<[tag |-> "Ok", val |-> <<>>]>>
        /\ ReturnedNoFeedRoot(c)

(* C5: when root() returns Err(e), parse returns XmlReader(e), not a       *)
(* ParseError such as NoFeedRoot.                                          *)
C5_XmlFaultPropagates ==
    \A c \in Calls :
        Done(c) /\ rootRes[c] # <<>> /\ rootRes[c][1].tag = "Err" =>
            result[c] = <<[tag |-> "Err",
                           val |-> [variant |-> "XmlReader", detail |-> rootRes[c][1].val]]>>

(* C6: the root is fetched once; at most one mapper runs, at most once;   *)
(* once a mapper has run, the call has returned that mapper's result       *)
(* unchanged, a Feed or the mapper's error.                                *)
C6_AllOrNothing ==
    \A c \in Calls :
        /\ rootFetches[c] <= 1
        /\ Done(c) => rootFetches[c] = 1
        /\ Len(invoked[c]) <= 1
        /\ mapperRes[c] # <<>> <=> invoked[c] # <<>>
        /\ invoked[c] # <<>> =>
              /\ Done(c)
              /\ result[c] = mapperRes[c]
              /\ mapperRes[c][1].tag = "Err" => ~ReturnedNoFeedRoot(c)

C6_Witness ==
    \E c, d \in Calls :
        /\ Done(c) /\ invoked[c] = <<"rss2">>
        /\ result[c] = <<[tag |-> "Err",
                          val |-> [variant |-> "ParseError", detail |-> "MissingContent"]]>>
        /\ Done(d) /\ invoked[d] = <<"atom">>
        /\ result[d] = <<[tag |-> "Ok", val |-> [format |-> "atom", id |-> "feed1"]]>>

(* C7: the version attribute is not consulted for feed and RDF roots: a   *)
(* feed root runs the Atom mapper and an RDF root the RSS 1.0 mapper for   *)
(* every version, absent or present, and two such roots that differ in     *)
(* the version alone run the same mapper.                                  *)
C7_VersionOnlyForRss ==
    \A c, d \in Calls :
        Done(c) /\ HasRoot(c) /\ LocalNameOf(c) \in {"feed", "RDF"} =>
            /\ invoked[c] = IF LocalNameOf(c) = "feed" THEN <<"atom">> ELSE <<"rss1">>
            /\ Done(d) /\ HasRoot(d) /\ LocalNameOf(d) = LocalNameOf(c)
                 => invoked[d] = invoked[c]

C7_Witness ==
    \E c, d \in Calls :
        /\ Done(c) /\ HasRoot(c) /\ LocalNameOf(c) = "feed" /\ VersionAbsent(c)
        /\ invoked[c] = <<"atom">>
        /\ Done(d) /\ HasRoot(d) /\ LocalNameOf(d) = "feed" /\ VersionIs(d, "2.0")
        /\ invoked[d] = <<"atom">>

C9_Isolated ==
    \A c \in Calls :
        /\ source[c] # <<>> => source[c] = <<[input |-> input[c]]>>
        /\ Done(c) =>
              /\ invoked[c] = ParseAlone(input[c]).invoked
              /\ result[c] = <<ParseAlone(input[c]).result>>

C9_Witness ==
    \E c, d \in Calls :
        /\ Done(c) /\ Done(d) /\ input[c] # input[d]
        /\ invoked[c] = <<"rss1">> /\ invoked[d] = <<>>
        /\ result[c][1].tag = "Ok" /\ input[d].stream = "eof"

(* C10: two roots with the same local name and the same version attribute *)
(* run the same mapper, or both fail with NoFeedRoot in the dispatcher,    *)
(* whatever their namespace, prefix, other attributes and body.            *)
C10_KeyOnly ==
    \A c, d \in Calls :
        /\ Done(c) /\ Done(d) /\ HasRoot(c) /\ HasRoot(d)
        /\ LocalNameOf(c) = LocalNameOf(d) /\ SameVersion(c, d)
        => /\ invoked[c] = invoked[d]
           /\ (invoked[c] = <<>> /\ ReturnedNoFeedRoot(c))
                <=> (invoked[d] = <<>> /\ ReturnedNoFeedRoot(d))

C10_Witness ==
    \E c, d \in Calls :
        /\ Done(c) /\ Done(d) /\ HasRoot(c) /\ HasRoot(d)
        /\ LocalNameOf(c) = "RDF" /\ LocalNameOf(d) = "RDF" /\ SameVersion(c, d)
        /\ RootOf(c).name.prefix # "" /\ RootOf(d).name.prefix = ""
        /\ RootOf(c).content # RootOf(d).content
        /\ invoked[c] = <<"rss1">> /\ invoked[d] = <<"rss1">>

====
